---- MODULE Spec2Model ----
(***************************************************************************)
(* YouTube content generator (src/app.py): the Generation Client with its  *)
(* bounded retry, the Response Parser (extract_titles, extract_tags), the  *)
(* Content Analyzer, the Session State Store and the handlers of the three *)
(* buttons that write it (Generate Content, Select, Clear All Results).    *)
(*                                                                         *)
(* Python strings are sequences of one-character strings, so that strip,   *)
(* split, lower, substring tests and the regular expressions are computed  *)
(* character by character.  Python dicts are records (the empty dict and   *)
(* the empty list are both the empty function << >>).                      *)
(***************************************************************************)
EXTENDS Integers, Sequences, FiniteSets, TLC

VARIABLES
    titles, description, tags, thumbnail_concepts, generation_history,
    content_metrics, selected_title, custom_tags, export_data,
    banner, api_log, clock,
    cl_pc, cl_max_retries, cl_env, cl_out,
    tg_reply

session_vars ==
    <<titles, description, tags, thumbnail_concepts, generation_history,
      content_metrics, selected_title, custom_tags, export_data>>

app_vars == <<session_vars, banner, api_log, clock>>

client_vars == <<cl_pc, cl_max_retries, cl_env, cl_out>>

vars == <<app_vars, client_vars, tg_reply>>

(***************************************************************************)
(* Text primitives (Python str methods and the re patterns the code uses). *)
(***************************************************************************)

Whitespace == {" ", "\n", "\t"}

Digits == {"0", "1", "2", "3", "4", "5", "6", "7", "8", "9"}

TagSeparators == {",", ";", "|"}

UpperCase == <<"A", "B", "C", "D", "E", "F", "G", "H", "I", "J", "K", "L", "M", "N", "O", "P", "Q", "R", "S", "T", "U", "V", "W", "X", "Y", "Z">>

LowerCase == <<"a", "b", "c", "d", "e", "f", "g", "h", "i", "j", "k", "l", "m", "n", "o", "p", "q", "r", "s", "t", "u", "v", "w", "x", "y", "z">>

LowerChar(c) ==
    IF \E i \in 1..Len(UpperCase) : UpperCase[i] = c
    THEN LowerCase[CHOOSE i \in 1..Len(UpperCase) : UpperCase[i] = c]
    ELSE c

\* str.lower()
Lower(s) == [i \in 1..Len(s) |-> LowerChar(s[i])]

RECURSIVE LStrip(_)
LStrip(s) ==
    IF s # <<>> /\ Head(s) \in Whitespace THEN LStrip(Tail(s)) ELSE s

RECURSIVE RStrip(_)
RStrip(s) ==
    IF s # <<>> /\ s[Len(s)] \in Whitespace
    THEN RStrip(SubSeq(s, 1, Len(s) - 1))
    ELSE s

\* str.strip()
Strip(s) == RStrip(LStrip(s))

\* sub in s
Contains(s, sub) ==
    \E i \in 0..(Len(s) - Len(sub)) : SubSeq(s, i + 1, i + Len(sub)) = sub

\* seq[:n]
Take(seq, n) == SubSeq(seq, 1, IF Len(seq) < n THEN Len(seq) ELSE n)

\* seq[-n:]
LastN(seq, n) == SubSeq(seq, IF Len(seq) > n THEN Len(seq) - n + 1 ELSE 1, Len(seq))

\* reversed(seq)
Reverse(seq) == [i \in 1..Len(seq) |-> seq[Len(seq) + 1 - i]]

\* the members of a set of numbers, in increasing order
Sorted(S) ==
    [k \in 1..Cardinality(S) |-> CHOOSE p \in S : Cardinality({q \in S : q < p}) = k - 1]

\* the pieces of s between the characters of seps: every separator cuts,
\* empty pieces are kept
SplitAt(s, seps) ==
    LET cuts == Sorted({i \in 1..Len(s) : s[i] \in seps})
        n == Len(cuts)
    IN  [k \in 1..(n + 1) |->
            SubSeq(s, IF k = 1 THEN 1 ELSE cuts[k - 1] + 1,
                      IF k = n + 1 THEN Len(s) ELSE cuts[k] - 1)]

\* the elements of seq at the positions of keep, in order
Pick(seq, keep) == LET at == Sorted(keep) IN [j \in 1..Len(at) |-> seq[at[j]]]

\* s.split('\n')
SplitLines(s) == SplitAt(s, {"\n"})

\* s.split(): runs of whitespace cut, no empty piece
SplitWords(s) ==
    LET pieces == SplitAt(s, Whitespace)
    IN  Pick(pieces, {k \in 1..Len(pieces) : pieces[k] # <<>>})

\* re.split(r'[,;|]+', s): a run of separators cuts once, so the empty
\* pieces inside a run are no pieces; those at the two ends are
ReSplitTags(s) ==
    LET pieces == SplitAt(s, TagSeparators)
        n == Len(pieces)
    IN  Pick(pieces, {k \in 1..n : k = 1 \/ k = n \/ pieces[k] # <<>>})

RECURSIVE IntToStr(_)
\* str(n) of a natural number
IntToStr(n) ==
    LET d == <<"0", "1", "2", "3", "4", "5", "6", "7", "8", "9">>[(n % 10) + 1]
    IN  IF n < 10 THEN <<d>> ELSE Append(IntToStr(n \div 10), d)

\* Python's None, which is no string
None == <<"<None>">>

(***************************************************************************)
(* Generation Client: call_gemini_with_retry.                              *)
(* env is the endpoint's behaviour, one outcome per attempt:               *)
(* [ok |-> TRUE, text |-> response text] when the call answers and         *)
(* [ok |-> FALSE, text |-> str(e)] when it raises.  The result records how *)
(* the function ended, with what value, and the events in order: the calls *)
(* made to the endpoint, each with its outcome, and the sleeps.            *)
(***************************************************************************)

DefaultMaxRetries == 3

RetryDelay == 1

\* f"Error: Unable to generate content after {max_retries} attempts. {str(e)}"
ErrorText(max_retries, e) ==
    <<"E", "r", "r", "o", "r", ":", " ", "U", "n", "a", "b", "l", "e", " ", "t", "o", " ", "g", "e", "n", "e", "r", "a", "t", "e", " ", "c", "o", "n", "t", "e", "n", "t", " ", "a", "f", "t", "e", "r", " ">> \o IntToStr(max_retries)
        \o <<" ", "a", "t", "t", "e", "m", "p", "t", "s", ".", " ">> \o e

CallEvent(o) == [do |-> "call", ok |-> o.ok, text |-> o.text, secs |-> 0]

SleepEvent == [do |-> "sleep", ok |-> FALSE, text |-> <<>>, secs |-> RetryDelay]

Returned(value, events) == [kind |-> "return", value |-> value, events |-> events]


\* the last attempt's except branch letting the exception go
LastFailureRaises(max_retries, o, events) ==
    [kind |-> "raise", value |-> None, events |-> Append(events, CallEvent(o))]

\* what the last attempt's except branch does with the exception
LastFailure(max_retries, o, events) ==
    Returned(ErrorText(max_retries, o.text), Append(events, CallEvent(o)))

RECURSIVE RetryLoop(_, _, _, _)
RetryLoop(env, max_retries, attempt, events) ==
    IF attempt >= max_retries
    THEN Returned(None, events)
    ELSE LET o == env[attempt + 1]
         IN  IF o.ok
             THEN Returned(Strip(o.text), Append(events, CallEvent(o)))
             ELSE IF attempt = max_retries - 1
                  THEN LastFailure(max_retries, o, events)
                  ELSE RetryLoop(env, max_retries, attempt + 1,
                                 events \o <<CallEvent(o), SleepEvent>>)


\* the loop over range(1, max_retries)
CallFromOne(env, max_retries) == RetryLoop(env, max_retries, 1, <<>>)

call_gemini_with_retry(env, max_retries) == RetryLoop(env, max_retries, 0, <<>>)

RECURSIVE Calls(_)
\* the calls among the events, in order
Calls(events) ==
    IF events = <<>> THEN <<>>
    ELSE IF Head(events).do = "call" THEN <<Head(events)>> \o Calls(Tail(events))
    ELSE Calls(Tail(events))

(***************************************************************************)
(* Response Parser.                                                        *)
(***************************************************************************)

MaxTitlesKept == 8

RECURSIVE DigitPrefix(_)
\* length of the leading run of digits
DigitPrefix(s) ==
    IF s # <<>> /\ Head(s) \in Digits THEN 1 + DigitPrefix(Tail(s)) ELSE 0

\* re.match(r'^\d+\.\s*(.+)', s): group 1, or None when there is no match
NumberedText(s) ==
    LET d == DigitPrefix(s)
        rest == LStrip(SubSeq(s, d + 2, Len(s)))
    IN  IF d >= 1 /\ Len(s) > d /\ s[d + 1] = "."
        THEN \* \s* gives back whitespace when nothing else is left for (.+)
             IF rest # <<>> THEN rest
             ELSE IF Len(s) > d + 1 THEN <<s[Len(s)]>>
             ELSE None
        ELSE None

\* positions q of a "(" that the pattern \([^)]*\)$ matches from
ParenStarts(t) ==
    {q \in 1..Len(t) :
        /\ t[q] = "("
        /\ q < Len(t)
        /\ t[Len(t)] = ")"
        /\ \A k \in (q + 1)..(Len(t) - 1) : t[k] # ")"}

RECURSIVE SpaceRunStart(_, _)
\* start of the whitespace run that ends just before position q
SpaceRunStart(t, q) ==
    IF q > 1 /\ t[q - 1] \in Whitespace THEN SpaceRunStart(t, q - 1) ELSE q

\* the title as captured, without the re.sub
KeepParenthetical(t) == t

\* re.sub(r'\s*\([^)]*\)$', '', t): the leftmost match is removed
StripParenthetical(t) ==
    IF ParenStarts(t) = {} THEN t
    ELSE LET q == CHOOSE q \in ParenStarts(t) : \A r \in ParenStarts(t) : q <= r
         IN  SubSeq(t, 1, SpaceRunStart(t, q) - 1)

\* the titles of the numbered lines, in the order of the lines
NumberedTitles(lines) ==
    LET m == [k \in 1..Len(lines) |-> NumberedText(Strip(lines[k]))]
        found == Pick(m, {k \in 1..Len(lines) : m[k] # None})
    IN  [j \in 1..Len(found) |-> StripParenthetical(Strip(found[j]))]

extract_titles(response) == Take(NumberedTitles(SplitLines(response)), MaxTitlesKept)

PrimaryCap == 7

SecondaryCap == 10

TrendingCap == 7

AllCap == 20

MinTagLen == 2

MaxTagLen == 30

PrimaryMarker == <<"P", "r", "i", "m", "a", "r", "y", " ", "t", "a", "g", "s", ":">>

SecondaryMarker == <<"S", "e", "c", "o", "n", "d", "a", "r", "y", " ", "t", "a", "g", "s", ":">>

TrendingMarker == <<"T", "r", "e", "n", "d", "i", "n", "g", " ", "t", "a", "g", "s", ":">>

\* [tag.strip() for tag in pieces if tag.strip()]
NonEmptyStripped(pieces) ==
    LET stripped == [k \in 1..Len(pieces) |-> Strip(pieces[k])]
    IN  Pick(stripped, {k \in 1..Len(pieces) : stripped[k] # <<>>})

\* [tag.strip() for tag in pieces if 2 < len(tag.strip()) < 30]
SizedStripped(pieces) ==
    LET stripped == [k \in 1..Len(pieces) |-> Strip(pieces[k])]
    IN  Pick(stripped, {k \in 1..Len(pieces) :
                           MinTagLen < Len(stripped[k]) /\ Len(stripped[k]) < MaxTagLen})

\* the test of one line of the labeled scan against a marker
LineHasMarker(marker, line) == Contains(Lower(line), marker)

\* one line of the labeled scan; acc holds the section and the three lists
ScanLine(acc, line) ==
    IF LineHasMarker(PrimaryMarker, line) THEN [acc EXCEPT !.section = "primary"]
    ELSE IF LineHasMarker(SecondaryMarker, line) THEN [acc EXCEPT !.section = "secondary"]
    ELSE IF LineHasMarker(TrendingMarker, line) THEN [acc EXCEPT !.section = "trending"]
    ELSE IF acc.section # "none" /\ Strip(line) # <<>>
         THEN LET found == NonEmptyStripped(ReSplitTags(line))
              IN  IF acc.section = "primary"
                  THEN [acc EXCEPT !.primary = @ \o found]
                  ELSE IF acc.section = "secondary"
                       THEN [acc EXCEPT !.secondary = @ \o found]
                       ELSE [acc EXCEPT !.trending = @ \o found]
    ELSE acc

RECURSIVE ScanLines(_, _)
ScanLines(acc, lines) ==
    IF lines = <<>> THEN acc ELSE ScanLines(ScanLine(acc, Head(lines)), Tail(lines))

\* the all-list of a labeled response
AllTags(primary, secondary, trending) == Take(primary \o secondary \o trending, AllCap)


\* the all-list of an unlabeled response without its cap
FallbackTagsUncapped(response) == SizedStripped(ReSplitTags(response))

\* the all-list of an unlabeled response
FallbackTags(response) == Take(SizedStripped(ReSplitTags(response)), AllCap)

extract_tags(response) ==
    IF Contains(response, PrimaryMarker) \/ Contains(response, SecondaryMarker)
    THEN LET acc == ScanLines([section |-> "none", primary |-> <<>>,
                               secondary |-> <<>>, trending |-> <<>>],
                              SplitLines(response))
         IN  [primary |-> Take(acc.primary, PrimaryCap),
              secondary |-> Take(acc.secondary, SecondaryCap),
              trending |-> Take(acc.trending, TrendingCap),
              all |-> AllTags(acc.primary, acc.secondary, acc.trending)]
    ELSE [all |-> FallbackTags(response)]

(***************************************************************************)
(* Content Analyzer: analyze_content_metrics.                              *)
(***************************************************************************)

WordsPerMinute == 200

MinKeywordLen == 3

TopKeywords == 10

RECURSIVE CountWords(_, _)
\* word_freq, as the list of its (word, count) items in insertion order
CountWords(words, freq) ==
    IF words = <<>> THEN freq
    ELSE LET w == Head(words)
         IN  IF Len(w) > MinKeywordLen
             THEN IF \E i \in 1..Len(freq) : freq[i][1] = w
                  THEN CountWords(Tail(words),
                           [i \in 1..Len(freq) |->
                               IF freq[i][1] = w THEN <<w, freq[i][2] + 1>> ELSE freq[i]])
                  ELSE CountWords(Tail(words), Append(freq, <<w, 1>>))
             ELSE CountWords(Tail(words), freq)

RECURSIVE SortByCount(_, _)
\* sorted(items, key=count, reverse=True): stable, so an item goes after
\* every item whose count is at least its own
SortByCount(items, sorted) ==
    IF items = <<>> THEN sorted
    ELSE LET it == Head(items)
             k == Cardinality({i \in 1..Len(sorted) : sorted[i][2] >= it[2]})
         IN  SortByCount(Tail(items),
                 SubSeq(sorted, 1, k) \o <<it>> \o SubSeq(sorted, k + 1, Len(sorted)))

analyze_content_metrics(content) ==
    LET word_count == Len(SplitWords(content))
        by_count == SortByCount(CountWords(SplitWords(Lower(content)), <<>>), <<>>)
    IN  [word_count |-> word_count,
         char_count |-> Len(content),
         reading_time |-> IF word_count \div WordsPerMinute > 1
                          THEN word_count \div WordsPerMinute ELSE 1,
         top_keywords |-> Take(by_count, TopKeywords)]

(***************************************************************************)
(* Session State Store.  A session is the record of the nine keys of       *)
(* st.session_state; the variables of the same names hold it.              *)
(***************************************************************************)

\* initialize_session_state: the defaults
Defaults ==
    [titles |-> <<>>, description |-> <<>>, tags |-> <<>>,
     thumbnail_concepts |-> <<>>, generation_history |-> <<>>,
     content_metrics |-> <<>>, selected_title |-> <<>>,
     custom_tags |-> <<>>, export_data |-> <<>>]

session ==
    [titles |-> titles, description |-> description, tags |-> tags,
     thumbnail_concepts |-> thumbnail_concepts,
     generation_history |-> generation_history,
     content_metrics |-> content_metrics, selected_title |-> selected_title,
     custom_tags |-> custom_tags, export_data |-> export_data]

\* d.get('all', [])
GetAll(d) == IF "all" \in DOMAIN d THEN d["all"] ELSE <<>>

\* bool(x) of a string, a list or a dict
Truthy(x) == x # <<>> /\ x # None

(***************************************************************************)
(* Generate Content handler.  in is the form (the widgets' values at the   *)
(* click), env the endpoint's behaviour for each of the four requests.     *)
(* run is the handler's state while it executes: the session, the requests *)
(* sent so far (one entry per endpoint attempt), the progress counter, the *)
(* clock, and whether an exception is on its way to the except clause.     *)
(***************************************************************************)

Steps == <<"titles", "description", "tags", "thumbnails">>

Enabled(in, step) ==
    IF step = "titles" THEN in.generate_titles
    ELSE IF step = "description" THEN in.generate_desc
    ELSE IF step = "tags" THEN in.generate_tags
    ELSE in.generate_thumb

\* sum([generate_titles, generate_desc, generate_tags, generate_thumb])
TotalTasks(in) == Cardinality({i \in 1..Len(Steps) : Enabled(in, Steps[i])})

\* the endpoint's record of one client call: its attempts, in order
Requests(step, events) ==
    LET calls == Calls(events)
    IN  [i \in 1..Len(calls) |->
            [step |-> step, ok |-> calls[i].ok, text |-> calls[i].text]]

\* what the step stores from the client's return value
Stored(step, value) ==
    IF step = "titles" THEN extract_titles(value)
    ELSE IF step = "tags" THEN extract_tags(value)
    ELSE value

\* extract_titles and extract_tags call a str method on the value
StoreRaises(step, value) == step \in {"titles", "tags"} /\ value = None

\* the thumbnails step assigning the description's key
FieldPasted(step) == IF step = "thumbnails" THEN "description" ELSE step

Field(step) == IF step = "thumbnails" THEN "thumbnail_concepts" ELSE step

\* one generation step of the handler: the call, the store, the progress
GenerationStep(run, in, env, step) ==
    IF run.raised \/ ~Enabled(in, step) THEN run
    ELSE LET c == call_gemini_with_retry(env[step], DefaultMaxRetries)
             sent == [run EXCEPT !.api_log = @ \o Requests(step, c.events)]
         IN  IF c.kind = "raise" \/ StoreRaises(step, c.value)
             THEN [sent EXCEPT !.raised = TRUE]
             ELSE [sent EXCEPT !.session[Field(step)] = Stored(step, c.value),
                               !.current_task = @ + 1]

\* the summary of the history entry
GeneratedContent(s) ==
    [titles |-> Len(s.titles),
     description |-> Truthy(s.description),
     tags |-> Len(GetAll(s.tags)),
     thumbnails |-> Truthy(s.thumbnail_concepts)]

SaveHistory(run, in) ==
    IF run.raised \/ ~in.save_history THEN run
    ELSE [run EXCEPT
            !.clock = @ + 1,
            !.session.generation_history =
                Append(@, [timestamp |-> run.clock + 1,
                           video_type |-> in.video_type,
                           keywords |-> in.keywords,
                           generated_content |-> GeneratedContent(run.session)])]

Analytics(run, in) ==
    IF in.include_analytics
    THEN [run EXCEPT !.session.content_metrics = analyze_content_metrics(in.video_script)]
    ELSE run

RECURSIVE RunSteps(_, _, _, _)
\* the four generation steps, in the order of the handler
RunSteps(run, in, env, i) ==
    IF i > Len(Steps) THEN run
    ELSE RunSteps(GenerationStep(run, in, env, Steps[i]), in, env, i + 1)

Finish(run) ==
    [run EXCEPT !.banner = IF run.raised THEN "generation_error" ELSE "success"]


\* not video_script
RejectedUnstripped(in) == in.video_script = <<>>

\* not video_script.strip()
Rejected(in) == Strip(in.video_script) = <<>>

\* the handler, from the click to the end of the script run
GenerateContent(s, now, in, env) ==
    LET start == [session |-> s, api_log |-> <<>>, current_task |-> 0,
                  total_tasks |-> TotalTasks(in), clock |-> now,
                  raised |-> FALSE, banner |-> "none"]
    IN  IF Rejected(in)
        THEN [start EXCEPT !.banner = "validation_error"]
        ELSE Finish(SaveHistory(RunSteps(Analytics(start, in), in, env, 1), in))


\* the keys without the selection
ClearedKeysNoSelection ==
    {"titles", "description", "tags", "thumbnail_concepts", "content_metrics"}

\* Clear All Results: the keys the handler resets
ClearedKeys ==
    {"titles", "description", "tags", "thumbnail_concepts", "content_metrics",
     "selected_title"}

ClearAll(s) == [k \in DOMAIN s |-> IF k \in ClearedKeys THEN Defaults[k] ELSE s[k]]

\* Generation History expander: the entries it lists, top to bottom
DisplayLimit == 10


\* the entries of generation_history[:10], reversed
DisplayedOldest(history) == Reverse(Take(history, DisplayLimit))

DisplayedHistory(history) == Reverse(LastN(history, DisplayLimit))

(***************************************************************************)
(* Actions of a session.                                                   *)
(***************************************************************************)

Store(s) ==
    /\ titles' = s.titles
    /\ description' = s.description
    /\ tags' = s.tags
    /\ thumbnail_concepts' = s.thumbnail_concepts
    /\ generation_history' = s.generation_history
    /\ content_metrics' = s.content_metrics
    /\ selected_title' = s.selected_title
    /\ custom_tags' = s.custom_tags
    /\ export_data' = s.export_data

\* a click on Generate Content, the form and the endpoint being one of
\* Inputs; the history is kept within cap entries
ClickGenerate(Inputs, cap) ==
    \E c \in Inputs :
        /\ c.in.save_history => Len(generation_history) < cap
        /\ LET run == GenerateContent(session, clock, c.in, c.env)
           IN  /\ Store(run.session)
               /\ banner' = run.banner
               /\ api_log' = run.api_log
               /\ clock' = run.clock
        /\ UNCHANGED <<client_vars, tg_reply>>

\* a click on the Select button of one of the titles shown
ClickSelect ==
    \E i \in 1..Len(titles) :
        /\ selected_title' = titles[i]
        /\ banner' = "selected"
        /\ api_log' = <<>>
        /\ UNCHANGED <<titles, description, tags, thumbnail_concepts,
                       generation_history, content_metrics, custom_tags,
                       export_data, clock, client_vars, tg_reply>>

\* a click on Clear All Results
ClickClear ==
    /\ Store(ClearAll(session))
    /\ banner' = "none"
    /\ api_log' = <<>>
    /\ UNCHANGED <<clock, client_vars, tg_reply>>

(***************************************************************************)
(* The inputs: forms and endpoint behaviours.                              *)
(***************************************************************************)

Ok(text) == [ok |-> TRUE, text |-> text]

Fail(e) == [ok |-> FALSE, text |-> e]

\* an endpoint that behaves the same at every attempt
Always(o) == [i \in 1..DefaultMaxRetries |-> o]

\* an endpoint that raises n times and then answers
FailsThenOk(n, e, text) ==
    [i \in 1..DefaultMaxRetries |-> IF i <= n THEN Fail(e) ELSE Ok(text)]

Timeout == <<"t", "i", "m", "e", "o", "u", "t">>

QuotaError == <<"q", "u", "o", "t", "a", ",", " ", "r", "e", "t", "r", "y", " ", "l", "a", "t", "e", "r">>

TitleReply == <<"1", ".", " ", "F", "o", "o", " ", "(", "g", "r", "e", "a", "t", " ", "h", "o", "o", "k", ")", "\n", "2", ".", " ", "B", "a", "r", "\n", "3", ".", " ", "B", "a", "z", "\n", "4", ".", " ", "Q", "u", "x">>

OneTitleReply == <<"1", ".", " ", "F", "o", "o">>

DescReply == <<" ", "W", "a", "t", "c", "h", " ", "n", "o", "w", " ", "\n">>

ThumbReply == <<"B", "o", "l", "d", " ", "f", "a", "c", "e">>

PlainReply == <<"g", "o", ",", " ", "x", ",", " ", "s", "e", "o", "|", "a", "b", "c">>

BlankScript == <<" ", "\n", "\t">>

Script == <<"G", "r", "o", "w", " ", "f", "a", "s", "t", " ", "g", "r", "o", "w">>

SliderMin == 3

SliderDefault == 8

SliderMax == 10

Form(script, t, d, g, th, analytics, history, max_titles) ==
    [video_script |-> script, video_type |-> "Tutorial", keywords |-> "python",
     generate_titles |-> t, generate_desc |-> d, generate_tags |-> g,
     generate_thumb |-> th, include_analytics |-> analytics,
     save_history |-> history, max_titles |-> max_titles]

\* the clicks of a set of forms: a form and, for each step it enables, one
\* of the behaviours B offers for the step (a step that is not enabled
\* never reaches the endpoint)
Clicks(Forms, B) ==
    UNION {
        {[in |-> f, env |-> e] :
            e \in [titles : IF f.generate_titles THEN B.titles ELSE {<<>>},
                   description : IF f.generate_desc THEN B.description ELSE {<<>>},
                   tags : IF f.generate_tags THEN B.tags ELSE {<<>>},
                   thumbnails : IF f.generate_thumb THEN B.thumbnails ELSE {<<>>}]}
        : f \in Forms}

(***************************************************************************)
(* Specifications.  Each is a session (or, for the client, a call) whose   *)
(* inputs are drawn from the sets named with it.                           *)
(***************************************************************************)

ClientIdle ==
    /\ cl_pc = "idle"
    /\ cl_max_retries = DefaultMaxRetries
    /\ cl_env = <<>>
    /\ cl_out = <<>>

\* the session after initialize_session_state, before any click
SessionStart ==
    /\ titles = Defaults.titles
    /\ description = Defaults.description
    /\ tags = Defaults.tags
    /\ thumbnail_concepts = Defaults.thumbnail_concepts
    /\ generation_history = Defaults.generation_history
    /\ content_metrics = Defaults.content_metrics
    /\ selected_title = Defaults.selected_title
    /\ custom_tags = Defaults.custom_tags
    /\ export_data = Defaults.export_data
    /\ banner = "none"
    /\ api_log = <<>>
    /\ clock = 0

Init == SessionStart /\ ClientIdle /\ tg_reply = <<>>

AllOn == <<TRUE, TRUE, TRUE, TRUE>>

AllOff == <<FALSE, FALSE, FALSE, FALSE>>

Answers ==
    [titles |-> {Always(Ok(TitleReply))}, description |-> {Always(Ok(DescReply))},
     tags |-> {Always(Ok(PlainReply))}, thumbnails |-> {Always(Ok(ThumbReply))}]

Fails ==
    [titles |-> {Always(Fail(Timeout))}, description |-> {Always(Fail(Timeout))},
     tags |-> {Always(Fail(QuotaError))}, thumbnails |-> {Always(Fail(Timeout))}]

(* Spec: a session with the three buttons.  A run has every step on or     *)
(* every step off, and the endpoint answers all its requests or fails them *)
(* all; a form with a blank script has any toggles.                        *)
MaxHistory == 2

SessionForms ==
    {Form(Script, t[1], t[2], t[3], t[4], a, h, m) :
        t \in {AllOn, AllOff}, a \in BOOLEAN, h \in BOOLEAN,
        m \in {SliderMin, SliderDefault}}

BlankForms ==
    {Form(BlankScript, t, d, g, th, a, h, SliderDefault) :
        t \in BOOLEAN, d \in BOOLEAN, g \in BOOLEAN, th \in BOOLEAN,
        a \in BOOLEAN, h \in BOOLEAN}
        \cup {Form(<<>>, TRUE, TRUE, TRUE, TRUE, TRUE, TRUE, SliderDefault)}

SessionClicks ==
    Clicks(SessionForms, Answers) \cup Clicks(SessionForms, Fails)
        \cup Clicks(BlankForms, Answers)

Generate == ClickGenerate(SessionClicks, MaxHistory)

Next == Generate \/ ClickSelect \/ ClickClear

Spec == Init /\ [][Next]_vars

(* SpecSteps: every combination of the four toggles, each request answered *)
(* or failed on its own (the thumbnails request also answered at the       *)
(* second attempt); neither analytics nor history.                         *)
StepForms ==
    {Form(s, t, d, g, th, FALSE, FALSE, SliderDefault) :
        s \in {Script, BlankScript}, t \in BOOLEAN, d \in BOOLEAN,
        g \in BOOLEAN, th \in BOOLEAN}

StepBehaviours ==
    [titles |-> {Always(Ok(OneTitleReply)), Always(Fail(Timeout))},
     description |-> {Always(Ok(DescReply)), Always(Fail(Timeout))},
     tags |-> {Always(Ok(PlainReply)), Always(Fail(QuotaError))},
     thumbnails |-> {Always(Ok(ThumbReply)), Always(Fail(Timeout)),
                     FailsThenOk(1, QuotaError, ThumbReply)}]

StepClicks == Clicks(StepForms, StepBehaviours)

GenerateSteps == ClickGenerate(StepClicks, 0)

NextSteps == GenerateSteps \/ ClickClear

SpecSteps == Init /\ [][NextSteps]_vars

(* SpecHistory: a long history.  The runs that save an entry generate the  *)
(* one title and are answered; the other runs generate it or nothing, and  *)
(* are failed, at every attempt or at the first two.                       *)
LongHistory == 11

HistoryClicks ==
    Clicks({Form(Script, TRUE, FALSE, FALSE, FALSE, FALSE, TRUE, SliderDefault)},
           [Answers EXCEPT !.titles = {Always(Ok(OneTitleReply))}])
    \cup Clicks({Form(s, t, FALSE, FALSE, FALSE, FALSE, FALSE, SliderDefault) :
                    s \in {Script, BlankScript}, t \in BOOLEAN},
                [Fails EXCEPT !.titles = {Always(Fail(Timeout)),
                                          FailsThenOk(2, Timeout, OneTitleReply)}])
    \cup Clicks({Form(BlankScript, TRUE, FALSE, FALSE, FALSE, FALSE, TRUE,
                      SliderDefault)}, Answers)

GenerateLong == ClickGenerate(HistoryClicks, LongHistory)

NextHistory == GenerateLong \/ ClickSelect \/ ClickClear

SpecHistory == Init /\ [][NextHistory]_vars

(* SpecTags: the tags step alone, on each of a set of replies.  A reply is *)
(* up to MaxLines lines, each a labeled or a plain line of tags, or up to  *)
(* MaxTagCount tags in one line.                                           *)
MaxLines == 3

MaxTagCount == 21

TagLines ==
    {<<"P", "r", "i", "m", "a", "r", "y", " ", "t", "a", "g", "s", ":", " ", "a", ",", " ", "b">>, <<"S", "e", "c", "o", "n", "d", "a", "r", "y", " ", "t", "a", "g", "s", ":", " ", "c">>, <<"T", "r", "e", "n", "d", "i", "n", "g", " ", "t", "a", "g", "s", ":", " ", "d", ",", " ", "e">>,
     <<"P", "r", "i", "m", "a", "r", "y", " ", "t", "a", "g", "s", ":">>, <<"s", "e", "c", "o", "n", "d", "a", "r", "y", " ", "t", "a", "g", "s", ":">>, <<"f", ";", " ", "g", "|", "h", "i", "j">>, <<"k">>, <<>>}

RECURSIVE Join(_, _)
\* sep.join(items)
Join(items, sep) ==
    IF items = <<>> THEN <<>>
    ELSE IF Len(items) = 1 THEN Head(items)
    ELSE Head(items) \o sep \o Join(Tail(items), sep)

\* n tags of three to five characters, separated by commas
ManyTags(n) == Join([k \in 1..n |-> <<"t", "a", "g">> \o IntToStr(k)], <<",">>)

\* the example of the specification, one marker per line
LabeledReply == <<"P", "r", "i", "m", "a", "r", "y", " ", "t", "a", "g", "s", ":", " ", "a", ",", " ", "b", "\n", "S", "e", "c", "o", "n", "d", "a", "r", "y", " ", "t", "a", "g", "s", ":", " ", "c", "\n", "T", "r", "e", "n", "d", "i", "n", "g", " ", "t", "a", "g", "s", ":", " ", "d", ",", " ", "e">>

TagReplies ==
    {Join(ls, <<"\n">>) : ls \in UNION {[1..n -> TagLines] : n \in 1..MaxLines}}
        \cup {ManyTags(n) : n \in 1..MaxTagCount}

TagsOnly == Form(Script, FALSE, FALSE, TRUE, FALSE, FALSE, FALSE, SliderDefault)

InitTags == SessionStart /\ ClientIdle /\ tg_reply \in TagReplies

\* the one click of the session, answered with tg_reply
GenerateTags ==
    /\ banner = "none"
    /\ ClickGenerate(Clicks({TagsOnly}, [Answers EXCEPT !.tags = {Always(Ok(tg_reply))}]), 0)

NextTags == GenerateTags

SpecTags == InitTags /\ [][NextTags]_vars

(* SpecTitles: the titles step alone, on each of a set of replies, held   *)
(* in tg_reply as the sequence of its lines.  A reply is up to             *)
(* MaxTitleLines lines of LineTable, or up to MaxNumbered numbered lines   *)
(* with an unnumbered line somewhere among them.                           *)
MaxTitleLines == 3

MaxNumbered == 10

\* lines a reply may have, each with the title it carries (None: the line
\* is not a numbered line).  A trailing parenthetical is a "(" up to the
\* ")" that ends the title, with no ")" between, and the whitespace before
\* it.
LineTable ==
    {[line |-> <<"1", ".", " ", "F", "o", "o", " ", "(", "g", "r", "e", "a", "t", " ", "h", "o", "o", "k", ")">>,
      title |-> <<"F", "o", "o">>],
     [line |-> <<"2", ".", " ", "B", "a", "r">>,
      title |-> <<"B", "a", "r">>],
     [line |-> <<"\t", "3", ".", "B", "a", "z", " ">>,
      title |-> <<"B", "a", "z">>],
     [line |-> <<"1", "2", ".", " ", "T", "o", "p", " ", "1", "0", " ", "(", "2", "0", "2", "4", ")", " ", "t", "i", "p", "s">>,
      title |-> <<"T", "o", "p", " ", "1", "0", " ", "(", "2", "0", "2", "4", ")", " ", "t", "i", "p", "s">>],
     [line |-> <<"4", ".", " ", "Q", "u", "x", " ", "(", "a", ")", " ", "(", "b", ")">>,
      title |-> <<"Q", "u", "x", " ", "(", "a", ")">>],
     [line |-> <<"8", ".", " ", "(", "o", "n", "l", "y", ")">>,
      title |-> <<>>],
     [line |-> <<"9", ".", " ", "M", "i", "x", " ", "(", "a", " ", "(", "b", ")", ")">>,
      title |-> <<"M", "i", "x", " ", "(", "a", " ", "(", "b", ")", ")">>],
     [line |-> <<"H", "e", "r", "e", " ", "a", "r", "e", " ", "t", "h", "e", " ", "t", "i", "t", "l", "e", "s", ":">>,
      title |-> None],
     [line |-> <<>>,
      title |-> None],
     [line |-> <<"5", ")", " ", "N", "o", "t", " ", "n", "u", "m", "b", "e", "r", "e", "d">>,
      title |-> None],
     [line |-> <<"T", "i", "t", "l", "e", " ", "6", ".", " ", "L", "a", "t", "e">>,
      title |-> None],
     [line |-> <<"7", ".">>,
      title |-> None]}

\* the i-th line of a long reply, every other one with a parenthetical
NumberedLine(i) ==
    [line |-> IntToStr(i) \o <<".", " ", "T">> \o IntToStr(i)
                  \o (IF i % 2 = 1 THEN <<" ", "(", "n", ")">> ELSE <<>>),
     title |-> <<"T">> \o IntToStr(i)]

PlainLine == <<"H", "e", "r", "e", " ", "a", "r", "e", " ", "t", "h", "e", " ", "t", "i", "t", "l", "e", "s", ":">>

\* n numbered lines, with the plain line after the k-th
LongReply(n, k) ==
    [i \in 1..(n + 1) |->
        IF i <= k THEN NumberedLine(i).line
        ELSE IF i = k + 1 THEN PlainLine
        ELSE NumberedLine(i - 1).line]

TitleReplies ==
    UNION {[1..n -> {e.line : e \in LineTable}] : n \in 1..MaxTitleLines}
        \cup UNION {{LongReply(n, k) : k \in 0..n} : n \in 1..MaxNumbered}

TitlesOnly == Form(Script, TRUE, FALSE, FALSE, FALSE, FALSE, FALSE, SliderDefault)

InitTitles == SessionStart /\ ClientIdle /\ tg_reply \in TitleReplies

\* the one click of the session, answered with the lines of tg_reply
GenerateTitles ==
    /\ banner = "none"
    /\ ClickGenerate(Clicks({TitlesOnly},
           [Answers EXCEPT !.titles = {Always(Ok(Join(tg_reply, <<"\n">>)))}]), 0)

NextTitles == GenerateTitles

SpecTitles == InitTitles /\ [][NextTitles]_vars

(* SpecFrame: runs with any of the four toggles and analytics on or off,   *)
(* all answered, and the run of all four steps failed at every attempt;    *)
(* no history.                                                             *)
FrameForms ==
    {Form(Script, t, d, g, th, a, FALSE, SliderDefault) :
        t \in BOOLEAN, d \in BOOLEAN, g \in BOOLEAN, th \in BOOLEAN,
        a \in BOOLEAN}

FrameClicks ==
    Clicks(FrameForms, Answers)
        \cup Clicks({Form(Script, TRUE, TRUE, TRUE, TRUE, FALSE, FALSE, SliderDefault)},
                    Fails)

GenerateFrame == ClickGenerate(FrameClicks, 0)

NextFrame == GenerateFrame \/ ClickSelect \/ ClickClear

SpecFrame == Init /\ [][NextFrame]_vars

(* SpecClient: one call of call_gemini_with_retry, with a retry budget of  *)
(* 1 to MaxRetriesTested and an endpoint that answers or raises at each    *)
(* attempt.                                                                *)
MaxRetriesTested == 4

Outcomes == {Ok(DescReply), Fail(Timeout), Fail(QuotaError)}

InitClient ==
    /\ SessionStart
    /\ tg_reply = <<>>
    /\ cl_pc = "ready"
    /\ cl_max_retries \in 1..MaxRetriesTested
    /\ cl_env \in [1..cl_max_retries -> Outcomes]
    /\ cl_out = <<>>

CallClient ==
    /\ cl_pc = "ready"
    /\ cl_out' = call_gemini_with_retry(cl_env, cl_max_retries)
    /\ cl_pc' = "done"
    /\ UNCHANGED <<cl_max_retries, cl_env, app_vars, tg_reply>>

NextClient == CallClient

SpecClient == InitClient /\ [][NextClient]_vars

(***************************************************************************)
(* Properties.                                                             *)
(***************************************************************************)

ErrorPrefix == <<"E", "r", "r", "o", "r", ":">>

\* s begins with p
StartsWith(s, p) == Len(s) >= Len(p) /\ SubSeq(s, 1, Len(p)) = p

RECURSIVE Waited(_)
\* the time slept over a sequence of events
Waited(events) ==
    IF events = <<>> THEN 0 ELSE Head(events).secs + Waited(Tail(events))

\* every attempt of the endpoint raises
AlwaysFails(env) == \A i \in DOMAIN env : ~env[i].ok

\* s is empty or whitespace only
WhitespaceOnly(s) == \A i \in 1..Len(s) : s[i] \in Whitespace

\* the requests of the log that belong to a step
RequestsOf(log, step) == {i \in 1..Len(log) : log[i].step = step}

\* position of a step in the order titles, description, tags, thumbnails
StepRank(step) ==
    IF step = "titles" THEN 1 ELSE IF step = "description" THEN 2
    ELSE IF step = "tags" THEN 3 ELSE 4

\* the step's requests all failed, and used up the retries
Exhausted(log, step) ==
    /\ Cardinality(RequestsOf(log, step)) = DefaultMaxRetries
    /\ \A i \in RequestsOf(log, step) : ~log[i].ok

\* the error text of the last request of a step
LastError(log, step) ==
    log[CHOOSE i \in RequestsOf(log, step) : \A j \in RequestsOf(log, step) : j <= i].text

(* C1: called against an endpoint that fails at every attempt, the client  *)
(* makes exactly max_retries attempts, sleeps the one-unit delay between   *)
(* consecutive attempts (and only there), lets no exception escape, and    *)
(* returns a string that starts with "Error:" and contains max_retries and *)
(* the description of the last error.                                      *)
C1_AlwaysFailingEndpoint ==
    (cl_pc = "done" /\ AlwaysFails(cl_env)) =>
        /\ cl_out.kind = "return"
        /\ Len(Calls(cl_out.events)) = cl_max_retries
        /\ Len(cl_out.events) = 2 * cl_max_retries - 1
        /\ \A i \in 1..Len(cl_out.events) :
              IF i % 2 = 1
              THEN cl_out.events[i].do = "call"
              ELSE cl_out.events[i].do = "sleep" /\ cl_out.events[i].secs = 1
        /\ Waited(cl_out.events) = cl_max_retries - 1
        /\ cl_out.value # None
        /\ StartsWith(cl_out.value, ErrorPrefix)
        /\ Contains(cl_out.value, IntToStr(cl_max_retries))
        /\ Contains(cl_out.value, cl_env[cl_max_retries].text)

\* a call with the default budget whose three attempts failed with
\* different errors
C1_Witness ==
    /\ cl_pc = "done"
    /\ cl_max_retries = DefaultMaxRetries
    /\ AlwaysFails(cl_env)
    /\ cl_env[1].text = Timeout
    /\ cl_env[DefaultMaxRetries].text = QuotaError
    /\ Len(Calls(cl_out.events)) = DefaultMaxRetries

(* C2: a click on Generate with an empty or whitespace-only script is      *)
(* rejected with the validation error: whatever the toggles and whatever   *)
(* the session holds, no request reaches the endpoint and the session      *)
(* stays as it is.                                                         *)
C2_BlankScriptRejected ==
    \A c \in SessionClicks :
        WhitespaceOnly(c.in.video_script) =>
            LET run == GenerateContent(session, clock, c.in, c.env)
            IN  /\ run.banner = "validation_error"
                /\ run.api_log = <<>>
                /\ run.session = session
                /\ run.current_task = 0

\* a rejected click in a session that holds results and history
C2_Witness ==
    /\ banner = "validation_error"
    /\ api_log = <<>>
    /\ titles # <<>>
    /\ description # <<>>
    /\ content_metrics # <<>>
    /\ generation_history # <<>>

(* C3: a run with a non-blank script sends the requests of its enabled     *)
(* steps only, each step's requests in one block (one client call: at most *)
(* max_retries attempts, ended by the first answer), the blocks in the     *)
(* order titles, description, tags, thumbnails; a step whose call failed   *)
(* at every attempt does not keep a later enabled step from running, and   *)
(* every enabled step completes once.                                      *)
C3_StepsInOrder ==
    \A c \in StepClicks :
        ~WhitespaceOnly(c.in.video_script) =>
            LET run == GenerateContent(session, clock, c.in, c.env)
                log == run.api_log
                on == (IF c.in.generate_titles THEN {"titles"} ELSE {})
                      \cup (IF c.in.generate_desc THEN {"description"} ELSE {})
                      \cup (IF c.in.generate_tags THEN {"tags"} ELSE {})
                      \cup (IF c.in.generate_thumb THEN {"thumbnails"} ELSE {})
            IN  /\ {log[i].step : i \in 1..Len(log)} = on
                /\ \A i \in 1..(Len(log) - 1) :
                      StepRank(log[i].step) <= StepRank(log[i + 1].step)
                /\ \A s \in on :
                      /\ Cardinality(RequestsOf(log, s)) \in 1..3
                      /\ \A i \in RequestsOf(log, s) :
                            log[i].ok => i + 1 \notin RequestsOf(log, s)
                      /\ (\A i \in RequestsOf(log, s) : ~log[i].ok) =>
                            Cardinality(RequestsOf(log, s)) = 3
                /\ run.current_task = Cardinality(on)
                /\ run.banner = "success"

\* a run whose titles call failed at every attempt and whose thumbnails
\* request was sent after it
C3_Witness ==
    /\ banner = "success"
    /\ Exhausted(api_log, "titles")
    /\ Exhausted(api_log, "tags")
    /\ RequestsOf(api_log, "description") = {}
    /\ \E i \in RequestsOf(api_log, "thumbnails") : api_log[i].ok
    /\ thumbnail_concepts = ThumbReply

\* the tags field holds the string: no mapping with the key all, the text
HoldsText(field, text) == "all" \notin DOMAIN field /\ field = text

(* C4: after a run, the field of every step whose call used up its retries *)
(* holds the "Error:" string the client returned for it.                   *)
C4_ErrorStringStored ==
    \A step \in {"titles", "description", "tags", "thumbnails"} :
        (banner = "success" /\ Exhausted(api_log, step)) =>
            LET text == ErrorText(DefaultMaxRetries, LastError(api_log, step))
            IN  /\ StartsWith(text, ErrorPrefix)
                /\ IF step = "titles" THEN titles = text
                   ELSE IF step = "description" THEN description = text
                   ELSE IF step = "tags" THEN HoldsText(tags, text)
                   ELSE thumbnail_concepts = text

(* C5: the response "Primary tags: a, b", "Secondary tags: c", "Trending   *)
(* tags: d, e" (one marker per line) is stored as primary a, b; secondary  *)
(* c; trending d, e; all a, b, c, d, e.                                    *)
C5_LabeledExample ==
    (banner = "success" /\ tg_reply = LabeledReply) =>
        tags = [primary |-> << <<"a">>, <<"b">> >>,
                secondary |-> << <<"c">> >>,
                trending |-> << <<"d">>, <<"e">> >>,
                all |-> << <<"a">>, <<"b">>, <<"c">>, <<"d">>, <<"e">> >>]

(* C6: the titles a run stores are at most as many as the number of titles *)
(* the slider asked for in that run.                                       *)
C6_TitlesWithinRequested ==
    \A c \in SessionClicks :
        (c.in.generate_titles /\ ~WhitespaceOnly(c.in.video_script)) =>
            LET run == GenerateContent(session, clock, c.in, c.env)
            IN  Len(run.session.titles) <= c.in.max_titles

(* C7, as stated: Clear All Results leaves every key of the session, the   *)
(* generation history included, at its default.                            *)
C7_ClearRestoresAllDefaults ==
    [][ClickClear =>
          /\ titles' = <<>> /\ description' = <<>> /\ tags' = <<>>
          /\ thumbnail_concepts' = <<>> /\ content_metrics' = <<>>
          /\ selected_title' = <<>> /\ generation_history' = <<>>]_vars

(* C7, amended: Clear All Results sets titles, description, tags,          *)
(* thumbnail concepts, content metrics and the selected title to their     *)
(* defaults whatever they held, and leaves the generation history (and the *)
(* custom tags and export data) as it was.                                 *)
C7_ClearResetsResults ==
    [][ClickClear =>
          /\ titles' = <<>> /\ description' = <<>> /\ tags' = <<>>
          /\ thumbnail_concepts' = <<>> /\ content_metrics' = <<>>
          /\ selected_title' = <<>>
          /\ generation_history' = generation_history
          /\ custom_tags' = custom_tags
          /\ export_data' = export_data]_vars

\* the session just after a clear of results, a selection and history
C7_Witness ==
    /\ banner = "none"
    /\ generation_history # <<>>
    /\ titles = <<>> /\ description = <<>> /\ tags = <<>>
    /\ thumbnail_concepts = <<>> /\ content_metrics = <<>>
    /\ selected_title = <<>>

(* C8: the entry a run appends to the history counts only what the run's   *)
(* enabled steps produced: a step the run had disabled contributes 0       *)
(* titles, no description, 0 tags, no thumbnails.                          *)
C8_EntrySummarizesItsRun ==
    \A c \in SessionClicks :
        (c.in.save_history /\ ~WhitespaceOnly(c.in.video_script)) =>
            LET run == GenerateContent(session, clock, c.in, c.env)
                h == run.session.generation_history
                e == h[Len(h)].generated_content
            IN  /\ Len(h) = Len(generation_history) + 1
                /\ ~c.in.generate_titles => e.titles = 0
                /\ ~c.in.generate_desc => e.description = FALSE
                /\ ~c.in.generate_tags => e.tags = 0
                /\ ~c.in.generate_thumb => e.thumbnails = FALSE

\* what every click does to the history
C9_Appends ==
    \A c \in HistoryClicks :
        LET run == GenerateContent(session, clock, c.in, c.env)
            h == run.session.generation_history
        IN  IF c.in.save_history /\ ~WhitespaceOnly(c.in.video_script)
            THEN /\ Len(h) = Len(generation_history) + 1
                 /\ SubSeq(h, 1, Len(generation_history)) = generation_history
                 /\ h[Len(h)].video_type = c.in.video_type
                 /\ h[Len(h)].keywords = c.in.keywords
                 /\ h[Len(h)].generated_content =
                        [titles |-> Len(run.session.titles),
                         description |-> run.session.description # <<>>,
                         tags |-> IF "all" \in DOMAIN run.session.tags
                                  THEN Len(run.session.tags.all) ELSE 0,
                         thumbnails |-> run.session.thumbnail_concepts # <<>>]
                 /\ c.in.generate_titles =>
                        \E i \in 1..Len(run.api_log) : run.api_log[i].step = "titles"
            ELSE h = generation_history

\* the expander lists the last ten entries, the newest first
C9_Displayed ==
    LET n == Len(generation_history)
        shown == DisplayedHistory(generation_history)
    IN  /\ Len(shown) = IF n < 10 THEN n ELSE 10
        /\ \A i \in 1..Len(shown) : shown[i] = generation_history[n + 1 - i]

\* a step keeps the entries there are, in their places
C9_Kept ==
    /\ Len(generation_history') \in {Len(generation_history), Len(generation_history) + 1}
    /\ SubSeq(generation_history', 1, Len(generation_history)) = generation_history

(* C9: over the clicks on Generate, Select and Clear, a run with a         *)
(* non-blank script and history tracking on appends exactly one entry, at  *)
(* the end and summarizing the session as its steps left it; any other     *)
(* click appends none; entries once appended are neither changed nor       *)
(* moved; and the history shown is the ten most recent entries, the newest *)
(* first.                                                                  *)
C9_HistoryAppendOnly == [](C9_Appends /\ C9_Displayed) /\ [][C9_Kept]_vars

\* a history longer than the display
C9_Witness ==
    /\ Len(generation_history) > DisplayLimit
    /\ Len(DisplayedHistory(generation_history)) = DisplayLimit
    /\ DisplayedHistory(generation_history)[1].timestamp
           > DisplayedHistory(generation_history)[DisplayLimit].timestamp
    /\ banner = "none"

(* C10: the tags stored keep to the caps, whatever text the endpoint       *)
(* returned: at most 7 primary, 10 secondary, 7 trending and 20 in all.    *)
C10_TagCaps ==
    /\ "primary" \in DOMAIN tags => Len(tags.primary) <= 7
    /\ "secondary" \in DOMAIN tags => Len(tags.secondary) <= 10
    /\ "trending" \in DOMAIN tags => Len(tags.trending) <= 7
    /\ "all" \in DOMAIN tags => Len(tags.all) <= 20
    /\ banner = "success" => "all" \in DOMAIN tags

\* a reply of more than twenty tags, stored
C10_Witness ==
    /\ banner = "success"
    /\ Len(SplitAt(tg_reply, {","})) > 20
    /\ Len(tags.all) = 20
    /\ DOMAIN tags = {"all"}

\* the title a line of a reply carries, None when it is not numbered
TitleOf(line) ==
    IF \E e \in LineTable : e.line = line
    THEN (CHOOSE e \in LineTable : e.line = line).title
    ELSE (CHOOSE e \in {NumberedLine(i) : i \in 1..(MaxNumbered + 1)} : e.line = line).title

RECURSIVE Captured(_)
\* the titles the lines carry, in the order of the lines
Captured(lines) ==
    IF lines = <<>> THEN <<>>
    ELSE IF TitleOf(Head(lines)) = None THEN Captured(Tail(lines))
    ELSE <<TitleOf(Head(lines))>> \o Captured(Tail(lines))

(* C11: the titles stored from a reply are the texts of its numbered lines *)
(* (optional whitespace, digits, a period, text), in the order of the      *)
(* lines, each without its trailing parenthetical, and only the first 8:   *)
(* 8 or more numbered lines give exactly 8 titles, no numbered line gives  *)
(* none, and "1. Foo (great hook)", "2. Bar" gives Foo, Bar.               *)
C11_NumberedTitles ==
    banner = "success" =>
        LET want == Captured(tg_reply)
        IN  /\ Len(titles) = IF Len(want) < 8 THEN Len(want) ELSE 8
            /\ \A i \in 1..Len(titles) : titles[i] = want[i]
            /\ tg_reply = <<<<"1", ".", " ", "F", "o", "o", " ", "(", "g", "r", "e", "a", "t", " ", "h", "o", "o", "k", ")">>, <<"2", ".", " ", "B", "a", "r">>>> =>
                   titles = <<<<"F", "o", "o">>, <<"B", "a", "r">>>>

\* a reply of more than eight numbered lines after a plain one, stored
C11_Witness ==
    /\ banner = "success"
    /\ Len(tg_reply) > 9
    /\ tg_reply[1] = PlainLine
    /\ Len(Captured(tg_reply)) > 8
    /\ Len(titles) = 8
    /\ titles[1] = <<"T", "1">>
    /\ titles[8] = <<"T", "8">>

(* C12: a run leaves the field of every step it has disabled as it was    *)
(* (as the previous run or clear left it), leaves the content metrics as   *)
(* they were when analytics is off, and writes nothing but the fields of   *)
(* its enabled steps and, with analytics on, the metrics: the selected     *)
(* title, custom tags and export data stay, and so does the history when   *)
(* it is not saved.                                                        *)
C12_FrameOfRun ==
    \A c \in FrameClicks :
        LET run == GenerateContent(session, clock, c.in, c.env)
        IN  /\ ~c.in.generate_titles => run.session.titles = titles
            /\ ~c.in.generate_desc => run.session.description = description
            /\ ~c.in.generate_tags => run.session.tags = tags
            /\ ~c.in.generate_thumb =>
                   run.session.thumbnail_concepts = thumbnail_concepts
            /\ ~c.in.include_analytics =>
                   run.session.content_metrics = content_metrics
            /\ ~c.in.save_history =>
                   run.session.generation_history = generation_history
            /\ run.session.selected_title = selected_title
            /\ run.session.custom_tags = custom_tags
            /\ run.session.export_data = export_data
            /\ {run.api_log[i].step : i \in 1..Len(run.api_log)} =
                   (IF c.in.generate_titles THEN {"titles"} ELSE {})
                   \cup (IF c.in.generate_desc THEN {"description"} ELSE {})
                   \cup (IF c.in.generate_tags THEN {"tags"} ELSE {})
                   \cup (IF c.in.generate_thumb THEN {"thumbnails"} ELSE {})

\* a run of the thumbnails step alone, answered, in a session that keeps
\* the titles selected from, the error stored as description, the tags and
\* the metrics of earlier runs
C12_Witness ==
    /\ banner = "success"
    /\ Len(api_log) = 1
    /\ api_log[1].step = "thumbnails"
    /\ api_log[1].ok
    /\ thumbnail_concepts = ThumbReply
    /\ titles # <<>>
    /\ selected_title # <<>>
    /\ description = ErrorText(DefaultMaxRetries, Timeout)
    /\ tags # <<>>
    /\ content_metrics # <<>>

====
